---- MODULE Spec2Model ----
(***************************************************************************)
(* A model of DomainValidator (src/src/domain_validator/domain_validator.py)*)
(*                                                                         *)
(* A string is a sequence of characters and a character is its Unicode     *)
(* code point: "a.com" is <<97, 46, 99, 111, 109>>.  A Python value is a   *)
(* record [t, s, n]: t is its type, s its characters (str, bytes), n its   *)
(* number (int).                                                           *)
(***************************************************************************)
EXTENDS Integers, Sequences, FiniteSets, TLC

VARIABLES
    ascii_only,         \* self.ascii_only
    domain_max_length,  \* self.domain_max_length
    pc,                 \* "idle": no call made yet; "done": a call has ended
    op,                 \* the method called
    domain,             \* its domain argument (a Python value)
    txt_code,           \* its txt_code argument (a string)
    txt_host,           \* its txt_host argument (a Python value)
    length,             \* its length argument (a Python value)
    prefix,             \* its prefix argument (a Python value)
    response,           \* the TXT records the resolver answered with
    events,             \* what the call did, in order
    result,             \* how the call ended
    given               \* the domain whose encoded form was passed on to
                        \* punycode_to_unicode; None in any other call

vars == <<ascii_only, domain_max_length, pc, op, domain, txt_code, txt_host,
          length, prefix, response, events, result, given>>

(***************************************************************************)
(* Bounds of the model.                                                    *)
(***************************************************************************)
MaxLen == 4        \* every string over Sigma up to this length is an input
MaxLabels == 3     \* domains are also built from up to this many sample labels
CustomMax == 6     \* a configured domain_max_length other than the default
MaxRecords == 2    \* TXT records in one answer

(***************************************************************************)
(* Program constants.                                                      *)
(***************************************************************************)
LabelMax == 63          \* {1,63} in domain_re
Hyphen == 45            \* "-" in domain_re
Dot == 46               \* "\." in domain_re, "." in f"{txt_host}.{domain}"
Newline == 10           \* the "\n" that $ lets follow a match
Quote == 34             \* '"' in strip('"')
Equals == 61            \* "=" in f"{prefix}={code}"
DevanagariFirst == 2304 \* \u0900 in domain_re
DevanagariLast == 2431  \* \u097F in domain_re
DefaultMaxLength == 255 \* domain_max_length: int = 255
TxtMax == 255           \* length > 255, (length + len(prefix)) > 255
DefaultCodeLength == 26 \* length: int = 26

(***************************************************************************)
(* Python values.                                                          *)
(***************************************************************************)
PyStr(s) == [t |-> "str", s |-> s, n |-> 0]
PyBytes(s) == [t |-> "bytes", s |-> s, n |-> 0]
PyInt(n) == [t |-> "int", s |-> <<>>, n |-> n]
None == [t |-> "none", s |-> <<>>, n |-> 0]

\* bool(v) is False: None, 0, "" and b"".
Falsy(v) ==
    \/ v.t = "none"
    \/ v.t = "int" /\ v.n = 0
    \/ v.t \in {"str", "bytes"} /\ v.s = <<>>

\* c * n
Rep(c, n) == [i \in 1..n |-> c]

\* ".".join(labels)
RECURSIVE Join(_)
Join(labels) ==
    IF Len(labels) = 0 THEN <<>>
    ELSE IF Len(labels) = 1 THEN labels[1]
    ELSE labels[1] \o <<Dot>> \o Join(Tail(labels))

(***************************************************************************)
(* How a call ends: it returns val (and text, for a returned string), or   *)
(* raises exc with message msg; cause is the exception chained by "from e".*)
(***************************************************************************)
NoResult == [kind |-> "none", val |-> "", text |-> <<>>, exc |-> "", msg |-> "", cause |-> ""]
Return(v) == [kind |-> "return", val |-> v, text |-> <<>>, exc |-> "", msg |-> "", cause |-> ""]
ReturnStr(s) == [kind |-> "return", val |-> "str", text |-> s, exc |-> "", msg |-> "", cause |-> ""]
Raise(e, m) == [kind |-> "raise", val |-> "", text |-> <<>>, exc |-> e, msg |-> m, cause |-> ""]
RaiseFrom(e, m, c) == [kind |-> "raise", val |-> "", text |-> <<>>, exc |-> e, msg |-> m, cause |-> c]

(***************************************************************************)
(* domain_re and its two compilations.                                     *)
(*   ^((?!-)[\w\u0900-\u097F-]{1,63}(?<!-)                                 *)
(*     \.(?!-)[\w\u0900-\u097F-]{1,63}(?<!-))*$                            *)
(***************************************************************************)
\* [a-zA-Z0-9_]
AsciiWord == (48..57) \cup (65..90) \cup {95} \cup (97..122)
Devanagari == DevanagariFirst..DevanagariLast

\* \w under re.UNICODE, on the characters the model uses: the ASCII word
\* characters, the letters of the Latin-1 block (U+00C0..U+00FF without the
\* signs U+00D7 and U+00F7), the Devanagari letters U+0905..U+0939 and the
\* CJK ideographs U+4E00..U+9FFF.
UnicodeWord ==
    AsciiWord \cup ((192..255) \ {215, 247}) \cup (2309..2361) \cup (19968..40959)

\* [\w\u0900-\u097F-]: \w is [a-zA-Z0-9_] under re.ASCII and every Unicode
\* word character under re.UNICODE; the range and the hyphen are literal.
InClass(ascii, c) ==
    \/ c = Hyphen
    \/ c \in Devanagari
    \/ IF ascii THEN c \in AsciiWord ELSE c \in UnicodeWord

\* [...]{1,63}: how many characters of the class follow from position i, at
\* most n of them.
RECURSIVE ClassRun(_, _, _, _)
ClassRun(ascii, s, i, n) ==
    IF n = 0 \/ i > Len(s) \/ ~InClass(ascii, s[i]) THEN 0
    ELSE 1 + ClassRun(ascii, s, i + 1, n - 1)

\* The lengths k for which (?!-)[...]{1,63}(?<!-) matches s[i .. i+k-1]: the
\* quantifier gives back characters down to one.
LabelLens(ascii, s, i) ==
    IF i > Len(s) \/ s[i] = Hyphen THEN {}
    ELSE { k \in 1..ClassRun(ascii, s, i, LabelMax) : s[i + k - 1] # Hyphen }

\* The positions the group (label \. label) can end at when it starts at i.
GroupEnds(ascii, s, i) ==
    UNION { { i + k1 + 1 + k2 : k2 \in LabelLens(ascii, s, i + k1 + 1) } :
            k1 \in { k \in LabelLens(ascii, s, i) : i + k <= Len(s) /\ s[i + k] = Dot } }

\* $ without re.MULTILINE: the end of the string, or just before a newline
\* that is the last character.
AtEnd(s, i) == i = Len(s) + 1 \/ (i = Len(s) /\ s[i] = Newline)

\* ( group )*: every position some number of groups can end at, starting
\* from the positions in todo.
RECURSIVE GroupStar(_, _, _, _)
GroupStar(ascii, s, todo, seen) ==
    IF todo = {} THEN seen
    ELSE LET ends == UNION { GroupEnds(ascii, s, i) : i \in todo }
         IN  GroupStar(ascii, s, ends \ (seen \cup todo), seen \cup todo)

\* ( group )* $ from position i.
MatchFrom(ascii, s, i) == \E j \in GroupStar(ascii, s, {i}, {}) : AtEnd(s, j)

\* Long domains around the bounds of the pattern and of the maximum length:
\* labels of LabelMax characters and one more, inner labels of twice that.
LongDomains ==
    LET l(n) == Rep(97, n)
    IN  { Join(<<l(LabelMax), l(1)>>), Join(<<l(LabelMax + 1), l(1)>>),
          Join(<<l(1), l(LabelMax)>>), Join(<<l(1), l(LabelMax + 1)>>),
          Join(<<l(1), l(2 * LabelMax), l(1)>>), Join(<<l(1), l(2 * LabelMax + 1), l(1)>>),
          Join(<<l(LabelMax), l(LabelMax), l(LabelMax), l(LabelMax)>>),
          Join(<<l(LabelMax), l(LabelMax), l(LabelMax), l(LabelMax + 1)>>),
          Join(<<l(LabelMax), l(LabelMax + 1), l(LabelMax), l(LabelMax)>>) }

\* The match of each long domain, worked out once.
LongMatches == [ascii \in BOOLEAN |-> [s \in LongDomains |-> MatchFrom(ascii, s, 1)]]

\* bool(self.re_pattern.match(domain))
re_match(ascii, s) ==
    IF s \in LongDomains THEN LongMatches[ascii][s] ELSE MatchFrom(ascii, s, 1)

\* validate_domain_re without the isinstance guard: re.match raises TypeError.
M_validate_domain_re_untyped(ascii, d) ==
    IF Falsy(d) THEN Raise("ValueError", "Domain cannot be empty.")
    ELSE IF d.t # "str" THEN Raise("TypeError", "expected string or bytes-like object")
    ELSE IF ~re_match(ascii, d.s) THEN Raise("ValueError", "Invalid domain name")
    ELSE Return("None")

validate_domain_re(ascii, d) ==
    IF Falsy(d) THEN Raise("ValueError", "Domain cannot be empty.")
    ELSE IF d.t # "str" THEN Raise("ValueError", "Domain must be a string.")
    ELSE IF ~re_match(ascii, d.s) THEN Raise("ValueError", "Invalid domain name")
    ELSE Return("None")

\* validate_domain_length with >= for >.
M_validate_domain_length_exclusive(maxlen, d) ==
    IF Falsy(d) THEN Raise("ValueError", "Domain cannot be empty.")
    ELSE IF d.t # "str" THEN Raise("ValueError", "Domain must be a string.")
    ELSE IF Len(d.s) >= maxlen THEN Raise("ValueError", "Domain name exceeds maximum length")
    ELSE Return("None")

validate_domain_length(maxlen, d) ==
    IF Falsy(d) THEN Raise("ValueError", "Domain cannot be empty.")
    ELSE IF d.t # "str" THEN Raise("ValueError", "Domain must be a string.")
    ELSE IF Len(d.s) > maxlen THEN Raise("ValueError", "Domain name exceeds maximum length")
    ELSE Return("None")

(***************************************************************************)
(* The DNS resolver (dns.resolver.resolve) is the environment: a lookup    *)
(* answers with records or raises.  "NXDOMAIN" and "NoAnswer" are the      *)
(* resolver's exceptions of these names; "Timeout" and "NoNameservers"     *)
(* stand for every other failure.  A call makes at most one NS and one TXT *)
(* lookup, so the DNS a call sees is a record dns: how an NS lookup ends   *)
(* (ns), how a TXT lookup ends (txt) and, if it answers, each TXT record's *)
(* to_text() (recs).                                                       *)
(***************************************************************************)
Failures == {"NXDOMAIN", "NoAnswer", "Timeout", "NoNameservers"}
Outcomes == {"answer"} \cup Failures

\* resolver.resolve(name, rtype)
resolve(dns, rtype) == IF rtype = "NS" THEN dns.ns ELSE dns.txt

\* What a call did: a check that ended, a lookup handed to the resolver, the
\* value is_domain_valid returned, a use of the idna codec.
Check(w, o) == [ev |-> "check", what |-> w, name |-> None, out |-> o]
Resolve(nm, rtype, o) == [ev |-> "resolve", what |-> rtype, name |-> nm, out |-> o]
Returned(f, v) == [ev |-> "return", what |-> f, name |-> None, out |-> v]
Codec(f, o) == [ev |-> "codec", what |-> f, name |-> None, out |-> o]

\* validate_domain_dns with except (NXDOMAIN, NoAnswer) for except Exception.
M_validate_domain_dns_narrow(d, dns) ==
    LET out == resolve(dns, "NS")
    IN  [res |-> IF out = "answer" THEN Return("None")
                 ELSE IF out \in {"NXDOMAIN", "NoAnswer"}
                 THEN RaiseFrom("ValueError", "Domain name did not resolve with DNS", out)
                 ELSE Raise(out, ""),
         ev |-> <<Resolve(d, "NS", out)>>]

\* validate_domain_dns: res is how it ends, ev what it did.
validate_domain_dns(d, dns) ==
    LET out == resolve(dns, "NS")
    IN  [res |-> IF out = "answer" THEN Return("None")
                 ELSE RaiseFrom("ValueError", "Domain name did not resolve with DNS", out),
         ev |-> <<Resolve(d, "NS", out)>>]

\* except ValueError
CaughtValueError(r) == r.kind = "raise" /\ r.exc = "ValueError"

\* is_domain_valid with the length check before the format check.
M_is_domain_valid_length_first(ascii, maxlen, d, dns) ==
    LET r1 == validate_domain_length(maxlen, d)
        r2 == validate_domain_re(ascii, d)
        r3 == validate_domain_dns(d, dns)
        Handled(r) == IF CaughtValueError(r) THEN Return("False") ELSE r
    IN  IF r1.kind = "raise"
        THEN [res |-> Handled(r1), ev |-> <<Check("length", "fail")>>]
        ELSE IF r2.kind = "raise"
        THEN [res |-> Handled(r2),
              ev |-> <<Check("length", "pass"), Check("re", "fail")>>]
        ELSE IF r3.res.kind = "raise"
        THEN [res |-> Handled(r3.res),
              ev |-> <<Check("length", "pass"), Check("re", "pass")>> \o r3.ev
                     \o <<Check("dns", "fail")>>]
        ELSE [res |-> Return("True"),
              ev |-> <<Check("length", "pass"), Check("re", "pass")>> \o r3.ev
                     \o <<Check("dns", "pass")>>]

is_domain_valid(ascii, maxlen, d, dns) ==
    LET r1 == validate_domain_re(ascii, d)
        r2 == validate_domain_length(maxlen, d)
        r3 == validate_domain_dns(d, dns)
        Handled(r) == IF CaughtValueError(r) THEN Return("False") ELSE r
    IN  IF r1.kind = "raise"
        THEN [res |-> Handled(r1), ev |-> <<Check("re", "fail")>>]
        ELSE IF r2.kind = "raise"
        THEN [res |-> Handled(r2),
              ev |-> <<Check("re", "pass"), Check("length", "fail")>>]
        ELSE IF r3.res.kind = "raise"
        THEN [res |-> Handled(r3.res),
              ev |-> <<Check("re", "pass"), Check("length", "pass")>> \o r3.ev
                     \o <<Check("dns", "fail")>>]
        ELSE [res |-> Return("True"),
              ev |-> <<Check("re", "pass"), Check("length", "pass")>> \o r3.ev
                     \o <<Check("dns", "pass")>>]

\* str.strip('"'): every leading and every trailing double quote goes.
RECURSIVE LStrip(_)
LStrip(s) == IF s # <<>> /\ Head(s) = Quote THEN LStrip(Tail(s)) ELSE s
RECURSIVE RStrip(_)
RStrip(s) ==
    IF s # <<>> /\ s[Len(s)] = Quote THEN RStrip(SubSeq(s, 1, Len(s) - 1)) ELSE s
Strip(s) == RStrip(LStrip(s))

\* f"{txt_host}.{domain}" when txt_host is truthy.
QueryName(d, host) == IF ~Falsy(host) THEN PyStr(host.s \o <<Dot>> \o d.s) ELSE d

\* CodeFound with startswith for ==.
M_CodeFound_prefix(code, recs) ==
    \E i \in 1..Len(recs) :
        /\ Len(Strip(recs[i])) >= Len(code)
        /\ code = SubSeq(Strip(recs[i]), 1, Len(code))

\* for rdata in response: if txt_code == rdata.to_text().strip('"')
\* recs holds each record's to_text().
CodeFound(code, recs) == \E i \in 1..Len(recs) : code = Strip(recs[i])

\* domain_ownership_confirmed going on to the TXT lookup whatever
\* is_domain_valid returned.
M_ownership_no_gate(ascii, maxlen, d, code, host, dns) ==
    LET v == is_domain_valid(ascii, maxlen, d, dns)
        nm == QueryName(d, host)
        txtOut == resolve(dns, "TXT")
        ev2 == v.ev \o <<Returned("is_domain_valid", v.res.val), Resolve(nm, "TXT", txtOut)>>
    IN  IF txtOut = "answer"
        THEN [res |-> IF CodeFound(code, dns.recs) THEN Return("True") ELSE Return("False"),
              ev |-> ev2]
        ELSE IF txtOut \in {"NXDOMAIN", "NoAnswer"}
        THEN [res |-> RaiseFrom("ValueError", "Error resolving TXT records:", txtOut),
              ev |-> ev2]
        ELSE [res |-> Raise(txtOut, ""), ev |-> ev2]

\* domain_ownership_confirmed returning False when the TXT lookup finds no
\* such domain or no answer.
M_ownership_fail_open(ascii, maxlen, d, code, host, dns) ==
    LET v == is_domain_valid(ascii, maxlen, d, dns)
        nm == QueryName(d, host)
        txtOut == resolve(dns, "TXT")
        ev1 == v.ev \o <<Returned("is_domain_valid", v.res.val)>>
        ev2 == ev1 \o <<Resolve(nm, "TXT", txtOut)>>
    IN  IF v.res.kind = "raise" THEN v
        ELSE IF v.res.val # "True"
        THEN [res |-> Raise("ValueError", "Invalid domain name."), ev |-> ev1]
        ELSE IF txtOut = "answer"
        THEN [res |-> IF CodeFound(code, dns.recs) THEN Return("True") ELSE Return("False"),
              ev |-> ev2]
        ELSE IF txtOut \in {"NXDOMAIN", "NoAnswer"}
        THEN [res |-> Return("False"), ev |-> ev2]
        ELSE [res |-> Raise(txtOut, ""), ev |-> ev2]

domain_ownership_confirmed(ascii, maxlen, d, code, host, dns) ==
    LET v == is_domain_valid(ascii, maxlen, d, dns)
        nm == QueryName(d, host)
        txtOut == resolve(dns, "TXT")
        ev1 == v.ev \o <<Returned("is_domain_valid", v.res.val)>>
        ev2 == ev1 \o <<Resolve(nm, "TXT", txtOut)>>
    IN  IF v.res.kind = "raise" THEN v
        ELSE IF v.res.val # "True"
        THEN [res |-> Raise("ValueError", "Invalid domain name."), ev |-> ev1]
        ELSE IF txtOut = "answer"
        THEN [res |-> IF CodeFound(code, dns.recs) THEN Return("True") ELSE Return("False"),
              ev |-> ev2]
        ELSE IF txtOut \in {"NXDOMAIN", "NoAnswer"}
        THEN [res |-> RaiseFrom("ValueError", "Error resolving TXT records:", txtOut),
              ev |-> ev2]
        ELSE [res |-> Raise(txtOut, ""), ev |-> ev2]

\* "".join(choice(ascii_letters + digits) for _ in range(length)): the
\* characters drawn are the environment's; draws is the stream they come
\* from, read cyclically.
RandomCode(n, draws) == [i \in 1..n |-> draws[((i - 1) % Len(draws)) + 1]]

generate_txt_code(len, pre, draws) ==
    IF ~Falsy(pre) /\ pre.t # "str"
    THEN Raise("ValueError", "Prefix must be a string.")
    ELSE IF len.t # "int" \/ len.n <= 0 \/ len.n > TxtMax
    THEN Raise("ValueError", "Length must be a positive integer and max of 255.")
    ELSE IF ~Falsy(pre)
    THEN IF (len.n + Len(pre.s)) > TxtMax
         THEN Raise("ValueError", "TXT record cannot exceed 255 characters, including prefix.")
         ELSE ReturnStr(pre.s \o <<Equals>> \o RandomCode(len.n, draws))
    ELSE ReturnStr(RandomCode(len.n, draws))

(***************************************************************************)
(* The idna codec (Python's encodings.idna and encodings.punycode), which  *)
(* domain.encode("idna") and bytes.decode("idna") run.  A codec result is  *)
(* [ok, s]: the string made, or ok = FALSE for a UnicodeError.             *)
(***************************************************************************)
Good(s) == [ok |-> TRUE, s |-> s]
Bad == [ok |-> FALSE, s |-> <<>>]

IsAscii(s) == \A i \in 1..Len(s) : s[i] < 128

\* s.split(sep) for a set of separator characters.
RECURSIVE SplitOn(_, _)
SplitOn(s, seps) ==
    LET at == { i \in 1..Len(s) : s[i] \in seps }
        i == CHOOSE k \in at : \A j \in at : k <= j
    IN  IF at = {} THEN <<s>>
        ELSE <<SubSeq(s, 1, i - 1)>> \o SplitOn(SubSeq(s, i + 1, Len(s)), seps)

\* dots = re.compile("[\u002E\u3002\uFF0E\uFF61]")
IdnaDots == {Dot, 12290, 65294, 65377}

\* ace_prefix: "xn--"
AcePrefix == <<120, 110, 45, 45>>
StartsWith(s, p) == Len(s) >= Len(p) /\ SubSeq(s, 1, Len(p)) = p

\* digits = b"abcdefghijklmnopqrstuvwxyz0123456789"
PunyDigit(d) == IF d < 26 THEN 97 + d ELSE 22 + d

\* T(j, bias): tmin = 1, tmax = 26, base = 36
PunyT(j, bias) ==
    LET res == 36 * (j + 1) - bias
    IN  IF res < 1 THEN 1 ELSE IF res > 26 THEN 26 ELSE res

\* generate_generalized_integer(N, bias), from digit j on.
RECURSIVE GeneralizedInteger(_, _, _)
GeneralizedInteger(N, bias, j) ==
    LET tt == PunyT(j, bias)
    IN  IF N < tt THEN <<PunyDigit(N)>>
        ELSE <<PunyDigit(tt + ((N - tt) % (36 - tt)))>>
             \o GeneralizedInteger((N - tt) \div (36 - tt), bias, j + 1)

\* The while loop of adapt.
RECURSIVE AdaptLoop(_, _)
AdaptLoop(delta, divisions) ==
    IF delta > 455 THEN AdaptLoop(delta \div 35, divisions + 36)
    ELSE divisions + ((36 * delta) \div (delta + 38))

\* adapt(delta, first, numchars)
Adapt(delta, first, numchars) ==
    LET d1 == IF first THEN delta \div 700 ELSE delta \div 2
    IN  AdaptLoop(d1 + (d1 \div numchars), 0)

\* generate_integers(baselen, deltas), from delta number k on.
RECURSIVE GenerateIntegers(_, _, _, _)
GenerateIntegers(baselen, deltas, k, bias) ==
    IF k > Len(deltas) THEN <<>>
    ELSE GeneralizedInteger(deltas[k], bias, 0)
         \o GenerateIntegers(baselen, deltas, k + 1,
                             Adapt(deltas[k], k = 1, baselen + k))

\* insertion_unsort(str, extended): the places of the characters from 128
\* up, by character and then by place, and the delta each gives.
RECURSIVE SortPlaces(_, _)
SortPlaces(text, places) ==
    IF places = {} THEN <<>>
    ELSE LET p == CHOOSE q \in places :
                      \A r \in places :
                          text[q] < text[r] \/ (text[q] = text[r] /\ q <= r)
         IN  <<p>> \o SortPlaces(text, places \ {p})

InsertionUnsort(text) ==
    LET order == SortPlaces(text, { i \in 1..Len(text) : text[i] >= 128 })
        \* selective_find's index: the characters up to char before the place
        index(k) == Cardinality({ q \in 1..(order[k] - 1) : text[q] <= text[order[k]] })
        oldindex(k) == IF k = 1 THEN -1 ELSE index(k - 1)
        oldchar(k) == IF k = 1 THEN 128 ELSE text[order[k - 1]]
        \* selective_len
        curlen(k) == Cardinality({ q \in 1..Len(text) : text[q] < text[order[k]] })
        delta(k) ==
            (IF text[order[k]] = oldchar(k) THEN 0
             ELSE (curlen(k) + 1) * (text[order[k]] - oldchar(k)))
            + index(k) - oldindex(k)
    IN  [k \in 1..Len(order) |-> delta(k) - 1]

\* punycode_encode(text)
punycode_encode(text) ==
    LET base == SelectSeq(text, LAMBDA c : c < 128)
        extended == GenerateIntegers(Len(base), InsertionUnsort(text), 1, 72)
    IN  IF base # <<>> THEN base \o <<Hyphen>> \o extended ELSE extended

\* str.upper() and str.lower() on ASCII.
Upper(s) == [i \in 1..Len(s) |-> IF s[i] \in 97..122 THEN s[i] - 32 ELSE s[i]]
Lower(s) == [i \in 1..Len(s) |-> IF s[i] \in 65..90 THEN s[i] + 32 ELSE s[i]]

\* decode_generalized_number(extended, extpos, bias, "strict"):
\* [ok, pos, n], pos the place after the number.
RECURSIVE DecodeGeneralizedNumber(_, _, _, _, _, _)
DecodeGeneralizedNumber(extended, extpos, bias, res, w, j) ==
    IF extpos > Len(extended) THEN [ok |-> FALSE, pos |-> extpos, n |-> 0]
    ELSE LET char == extended[extpos]
             digit == IF char \in 65..90 THEN char - 65 ELSE char - 22
             tt == PunyT(j, bias)
         IN  IF ~(char \in 65..90 \/ char \in 48..57)
             THEN [ok |-> FALSE, pos |-> extpos, n |-> 0]
             ELSE IF digit < tt
             THEN [ok |-> TRUE, pos |-> extpos + 1, n |-> res + digit * w]
             ELSE DecodeGeneralizedNumber(extended, extpos + 1, bias,
                                          res + digit * w, w * (36 - tt), j + 1)

\* insertion_sort(base, extended, "strict"): the loop, its body once the
\* number num is decoded, and once the character and the place are known.
RECURSIVE InsertionSort(_, _, _, _, _, _)
Placed(base, extended, extpos, num, char, pos) ==
    IF char > 1114111 THEN Bad
    ELSE InsertionSort(SubSeq(base, 1, pos) \o <<char>> \o SubSeq(base, pos + 1, Len(base)),
                       extended, num.pos, char, pos,
                       Adapt(num.n, extpos = 1, Len(base) + 1))

Inserted(base, extended, extpos, char, pos, num) ==
    IF ~num.ok THEN Bad
    ELSE Placed(base, extended, extpos, num,
                char + ((pos + num.n + 1) \div (Len(base) + 1)),
                (pos + num.n + 1) % (Len(base) + 1))

InsertionSort(base, extended, extpos, char, pos, bias) ==
    IF extpos > Len(extended) THEN Good(base)
    ELSE Inserted(base, extended, extpos, char, pos,
                  DecodeGeneralizedNumber(extended, extpos, bias, 0, 1, 0))

\* punycode_decode(text, "strict")
punycode_decode(text) ==
    LET hyphens == { i \in 1..Len(text) : text[i] = Hyphen }
        pos == IF hyphens = {} THEN 0 ELSE CHOOSE i \in hyphens : \A j \in hyphens : j <= i
        base == SubSeq(text, 1, pos - 1)
        extended == Upper(SubSeq(text, pos + 1, Len(text)))
    IN  InsertionSort(base, extended, 1, 128, -1, 72)

\* stringprep's table B.1: characters mapped to nothing.
MappedToNothing ==
    {173, 847, 6150, 6155, 6156, 6157, 8203, 8204, 8205, 8288, 65279} \cup (65024..65039)

\* stringprep's tables C.1.2 and C.2.2 to C.8 in the basic plane, without
\* the characters that table B.1 or NFKC has already taken away.
Prohibited(c) ==
    \/ c \in 128..159
    \/ c \in {1757, 1807, 5760, 6158, 8232, 8233, 65534, 65535, 832, 833, 8206, 8207}
    \/ c \in 8289..8291
    \/ c \in 8298..8303
    \/ c \in 65529..65533
    \/ c \in 57344..63743
    \/ c \in 64976..65007
    \/ c \in 55296..57343
    \/ c \in 12272..12283
    \/ c \in 8234..8238

\* The Latin-1 letters, the Devanagari letters and the CJK ideographs.
Latin1Letters == (192..255) \ {215, 247}
DevanagariLetters == 2309..2361
CJKIdeographs == 19968..40959

\* The characters the tables below stand for: on these the mapping is table
\* B.1, then table B.2 with NFKC (upper to lower case, U+00DF to "ss"; the
\* Devanagari letters and the ideographs are caseless and stable), none is
\* right-to-left, and the prohibited ones are those of Prohibited.
InTables(s) ==
    \A i \in 1..Len(s) :
        \/ s[i] \in 0..127
        \/ s[i] \in Latin1Letters
        \/ s[i] \in DevanagariLetters
        \/ s[i] \in CJKIdeographs
        \/ s[i] \in MappedToNothing
        \/ s[i] \in IdnaDots
        \/ Prohibited(s[i])

\* The mapping step of nameprep(label).
RECURSIVE NameprepMap(_)
NameprepMap(label) ==
    IF label = <<>> THEN <<>>
    ELSE LET c == Head(label)
             m == IF c \in MappedToNothing THEN <<>>
                  ELSE IF c \in 65..90 \/ (c \in 192..222 /\ c # 215) THEN <<c + 32>>
                  ELSE IF c = 223 THEN <<115, 115>>
                  ELSE <<c>>
         IN  m \o NameprepMap(Tail(label))

\* nameprep(label): the mapped label, or a UnicodeError for a prohibited
\* character.
nameprep(label) ==
    LET mapped == NameprepMap(label)
    IN  IF \E i \in 1..Len(mapped) : Prohibited(mapped[i]) THEN Bad
        ELSE Good(mapped)

\* if 0 < len(label) < 64: return label; raise UnicodeError
SizeChecked(label) == IF 0 < Len(label) /\ Len(label) < 64 THEN Good(label) ELSE Bad

\* ToASCII(label): steps 3 to 8, on the label nameprep has made.
Prepared(prepped) ==
    IF ~prepped.ok THEN Bad
    ELSE IF IsAscii(prepped.s) THEN SizeChecked(prepped.s)
    ELSE IF StartsWith(prepped.s, AcePrefix) THEN Bad
    ELSE SizeChecked(AcePrefix \o punycode_encode(prepped.s))

\* ToASCII(label)
ToASCII(label) ==
    IF IsAscii(label) THEN SizeChecked(label) ELSE Prepared(nameprep(label))

\* ToUnicode(label): steps 6 and 7, the decoded label turned back by ToASCII
\* and compared.
RoundTrip(label, decoded, again) ==
    IF ~again.ok \/ Lower(label) # again.s THEN Bad ELSE decoded

\* ToUnicode(label): step 5, on what punycode_decode has made.
Decoded(label, decoded) ==
    IF ~decoded.ok THEN Bad ELSE RoundTrip(label, decoded, ToASCII(decoded.s))

\* ToUnicode(label) for a label of bytes.
ToUnicode(label) ==
    IF ~StartsWith(label, AcePrefix) THEN Good(label)
    ELSE Decoded(label, punycode_decode(SubSeq(label, 5, Len(label))))

\* The loop over the labels in Codec.encode and Codec.decode: each label
\* through ToASCII or ToUnicode, joined by dots to what came before.
RECURSIVE JoinCoded(_, _, _, _)
Appended(labels, i, unicode, sofar, one) ==
    IF ~one.ok THEN Bad
    ELSE JoinCoded(labels, i + 1, unicode,
                   IF i = 1 THEN one.s ELSE sofar \o <<Dot>> \o one.s)

JoinCoded(labels, i, unicode, sofar) ==
    IF i > Len(labels) THEN Good(sofar)
    ELSE Appended(labels, i, unicode, sofar,
                  IF unicode THEN ToUnicode(labels[i]) ELSE ToASCII(labels[i]))

\* The trailing dot of the input put back.
Trailed(coded, trailing) ==
    IF ~coded.ok THEN Bad
    ELSE Good(IF trailing THEN coded.s \o <<Dot>> ELSE coded.s)

\* The labels without the empty one that a trailing dot leaves.
Labels(labels) ==
    IF labels[Len(labels)] = <<>> THEN SubSeq(labels, 1, Len(labels) - 1) ELSE labels

\* result.split(b".") within the sizes: the fast path of Codec.encode.
SizesFit(labels) ==
    /\ \A i \in 1..(Len(labels) - 1) : 0 < Len(labels[i]) /\ Len(labels[i]) < 64
    /\ Len(labels[Len(labels)]) < 64

\* Whether p occurs in s.
Contains(s, p) == \E i \in 1..(Len(s) - Len(p) + 1) : SubSeq(s, i, i + Len(p) - 1) = p

\* Codec.encode(input)
idna_encode(input) ==
    IF input = <<>> THEN Good(<<>>)
    ELSE IF IsAscii(input)
    THEN (IF SizesFit(SplitOn(input, {Dot})) THEN Good(input) ELSE Bad)
    ELSE Trailed(JoinCoded(Labels(SplitOn(input, IdnaDots)), 1, FALSE, <<>>),
                 input[Len(input)] \in IdnaDots)

\* Codec.decode that only ever takes its fast path.
M_idna_decode_fast_path(input) == Good(input)

\* Codec.decode(input) for bytes.
idna_decode(input) ==
    IF input = <<>> THEN Good(<<>>)
    ELSE IF ~Contains(input, AcePrefix) THEN Good(input)
    ELSE Trailed(JoinCoded(Labels(SplitOn(input, {Dot})), 1, TRUE, <<>>),
                 input[Len(input)] = Dot)

\* What a conversion ends with once the mode and the format check have let
\* it through: the string the codec made, or a ValueError for its error.
Converted(coded, codec, what) ==
    IF coded.ok
    THEN [res |-> ReturnStr(coded.s),
          ev |-> <<Check("re", "pass"), Codec(codec, "done")>>]
    ELSE [res |-> Raise("ValueError", what),
          ev |-> <<Check("re", "pass"), Codec(codec, "UnicodeError")>>]

\* try: self.validate_domain_re(domain) except ValueError: raise
Checked(r, then) ==
    IF r.kind = "raise" THEN [res |-> r, ev |-> <<Check("re", "fail")>>] ELSE then

\* if self.ascii_only is True: raise NotImplementedError(...)
Unsupported(what) == [res |-> Raise("NotImplementedError", what), ev |-> <<>>]

\* unicode_to_punycode with the format check before the mode check.
M_unicode_to_punycode_format_first(ascii, d) ==
    Checked(validate_domain_re(ascii, d),
            IF ascii
            THEN [res |-> Raise("NotImplementedError",
                                "Punycode conversion is not supported for ASCII-only mode."),
                  ev |-> <<Check("re", "pass")>>]
            ELSE Converted(idna_encode(d.s), "idna_encode", "Error converting to Punycode"))

unicode_to_punycode(ascii, d) ==
    IF ascii
    THEN Unsupported("Punycode conversion is not supported for ASCII-only mode.")
    ELSE Checked(validate_domain_re(ascii, d),
                 Converted(idna_encode(d.s), "idna_encode", "Error converting to Punycode"))

\* domain.encode("ascii") fails on a character from 128 up; then the idna
\* codec decodes the bytes.
punycode_to_unicode(ascii, d) ==
    IF ascii
    THEN Unsupported("Punycode to Unicode conversion is not supported for ASCII-only mode.")
    ELSE Checked(validate_domain_re(ascii, d),
                 IF ~IsAscii(d.s)
                 THEN [res |-> Raise("ValueError", "Error converting to Unicode"),
                       ev |-> <<Check("re", "pass")>>]
                 ELSE Converted(idna_decode(d.s), "idna_decode",
                                "Error converting to Unicode"))

(***************************************************************************)
(* Inputs.                                                                 *)
(***************************************************************************)
\* One character of each kind the pattern tells apart: "a", "-", ".", ":",
\* the newline, the Devanagari letter U+0905 and the CJK ideograph U+4F8B.
Sigma == {97, Hyphen, Dot, 58, Newline, 2309, 20363}

RECURSIVE StringsOfLen(_)
StringsOfLen(n) ==
    IF n = 0 THEN {<<>>}
    ELSE { <<c>> \o s : c \in Sigma, s \in StringsOfLen(n - 1) }

StringsUpTo(n) == UNION { StringsOfLen(k) : k \in 0..n }

NonStrings == {None, PyInt(0), PyInt(123)}

\* The domains of the tests and of the grammar's examples.
Ex_a_com == <<97, 46, 99, 111, 109>>
    \* "a.com"
Ex_xn == <<120, 110, 45, 45, 55, 99, 97, 54, 98, 121, 102, 121, 99, 46, 99, 111, 109>>
    \* "xn--7ca6byfyc.com"
Ex_python_co_uk == <<112, 121, 116, 104, 111, 110, 46, 99, 111, 46, 117, 107>>
    \* "python.co.uk"
Ex_dotdot == <<112, 121, 116, 104, 111, 110, 46, 46, 111, 114, 103>>
    \* "python..org"
Ex_trailing_hyphen == <<112, 121, 116, 104, 111, 110, 45, 46, 111, 114, 103>>
    \* "python-.org"
Ex_ipv4 == <<50, 53, 53, 46, 48, 46, 48, 46, 48>>
    \* "255.0.0.0"
Ex_ipv6 == <<102, 101, 56, 48, 58, 58, 49>>
    \* "fe80::1"
Ex_tagged == <<97, 98, 45, 45, 120, 46, 99, 111, 109>>
    \* "ab--x.com"
Ex_single == <<99, 111, 109>>
    \* "com"
Ex_a_b_c == <<97, 46, 98, 46, 99>>
    \* "a.b.c"
Ex_upper == <<65, 46, 67, 79, 77>>
    \* "A.COM"
Examples == {Ex_a_com, Ex_xn, Ex_python_co_uk, Ex_dotdot, Ex_trailing_hyphen,
             Ex_ipv4, Ex_ipv6, Ex_tagged, Ex_single, Ex_a_b_c, Ex_upper}

\* Domains put together from short labels.
\* "a", "ab", "a-b", "-a", "a-"
SampleLabels == {<<97>>, <<97, 98>>, <<97, 45, 98>>, <<45, 97>>, <<97, 45>>}

RECURSIVE LabelSeqs(_)
LabelSeqs(n) ==
    IF n = 0 THEN {<<>>}
    ELSE { <<l>> \o ls : l \in SampleLabels, ls \in LabelSeqs(n - 1) }

LabelDomains == { Join(ls) : ls \in UNION { LabelSeqs(n) : n \in 1..MaxLabels } }

\* Well-formed domains of m characters.
AtLength(m) ==
    IF m >= 4 * LabelMax + 3
    THEN Join(<<Rep(97, LabelMax), Rep(97, m - 3 * LabelMax - 3), Rep(97, LabelMax),
                Rep(97, LabelMax)>>)
    ELSE IF m >= 3 THEN <<97, 46>> \o Rep(97, m - 2)
    ELSE Rep(97, m)

\* Strings at and just over each maximum length.
Boundary ==
    UNION { {AtLength(m), AtLength(m + 1), Rep(97, m), Rep(97, m + 1)} :
            m \in {DefaultMaxLength, CustomMax} }

ReInputs ==
    { PyStr(s) : s \in StringsUpTo(MaxLen) \cup LabelDomains \cup LongDomains
                       \cup Examples \cup Boundary }
    \cup NonStrings

DomainSample ==
    { PyStr(s) : s \in StringsUpTo(MaxLen - 1) \cup Examples \cup Boundary }
    \cup NonStrings

\* Domains with encoded and with non-ASCII labels: "xn--l1b.com",
\* "xn--fsq.com", "XN--L1B.com", "xn--a-xtd.com", "xn--a.com", "xn--zz.com",
\* "A" U+0905 ".com", U+00DF ".a", U+00C9 ".com", U+0905 U+3002 "com",
\* "xn--" U+0905 ".com".
Ex_puny_l1b == <<120, 110, 45, 45, 108, 49, 98, 46, 99, 111, 109>>
Ex_puny_fsq == <<120, 110, 45, 45, 102, 115, 113, 46, 99, 111, 109>>
Ex_puny_upper == <<88, 78, 45, 45, 76, 49, 66, 46, 99, 111, 109>>
Ex_puny_mixed == <<120, 110, 45, 45, 97, 45, 120, 116, 100, 46, 99, 111, 109>>
Ex_puny_control == <<120, 110, 45, 45, 97, 46, 99, 111, 109>>
Ex_puny_broken == <<120, 110, 45, 45, 122, 122, 46, 99, 111, 109>>
Ex_mixed_case == <<65, 2309>> \o <<46, 99, 111, 109>>
Ex_sharp_s == <<223>> \o <<46, 97>>
Ex_e_acute == <<201>> \o <<46, 99, 111, 109>>
Ex_ideographic_dot == <<2309, 12290>> \o <<99, 111, 109>>
Ex_ace_unicode == <<120, 110, 45, 45>> \o <<2309>> \o <<46, 99, 111, 109>>
\* The tests' U+4F8B U+5B50 "." U+6D4B U+8BD5 and its encoded form.
Ex_cjk == <<20363, 23376, Dot, 27979, 35797>>
Ex_cjk_puny == <<120, 110, 45, 45, 102, 115, 113, 117, 48, 48, 97, 46, 120, 110, 45, 45, 48, 122, 119, 109, 53, 54, 100>>
\* "a." U+0905 and a newline: the newline falls within the last label.
Ex_newline_label == <<97, Dot, 2309, Newline>>
\* "a", 126 times "a", "a": the pattern takes the inner label for two.
Ex_long_inner == Join(<<Rep(97, 1), Rep(97, 2 * LabelMax), Rep(97, 1)>>)
\* A label within the pattern's 63 characters whose encoded form is longer.
Ex_long_encoded == Rep(2309, LabelMax - 3) \o <<46, 99, 111, 109>>
Encoded == {Ex_puny_l1b, Ex_puny_fsq, Ex_puny_upper, Ex_puny_mixed, Ex_puny_control,
            Ex_puny_broken, Ex_mixed_case, Ex_sharp_s, Ex_e_acute, Ex_ideographic_dot,
            Ex_ace_unicode, Ex_cjk, Ex_cjk_puny, Ex_newline_label, Ex_long_inner,
            Ex_long_encoded}

\* Whether the text that each encoded label of s decodes to is within the
\* characters the nameprep tables stand for.
DecodedInTables(s) ==
    LET labels == SplitOn(s, {Dot})
    IN  \A i \in 1..Len(labels) :
            StartsWith(labels[i], AcePrefix) =>
                InTables(punycode_decode(SubSeq(labels[i], 5, Len(labels[i]))).s)

\* What the conversions are called with.
ConversionInputs ==
    { d \in DomainSample \cup { PyStr(s) : s \in Encoded } :
          d.t = "str" => InTables(d.s) /\ DecodedInTables(d.s) }

OwnDomains == { PyStr(s) : s \in Examples \cup Boundary \cup {<<>>} } \cup NonStrings

\* "k", "kk", "j"
TxtCodes == {<<107>>, <<107, 107>>, <<106>>}
\* None, "", "h"
TxtHosts == {None, PyStr(<<>>), PyStr(<<104>>)}

\* to_text() of TXT records: one string, a longer one, another one, and a
\* record of two strings.
Quoted(s) == <<Quote>> \o s \o <<Quote>>
RecordTexts == {Quoted(<<107>>), Quoted(<<107, 107>>), Quoted(<<106, 107>>),
                Quoted(<<107>>) \o <<32>> \o Quoted(<<106>>)}
RECURSIVE RecordSeqs(_)
RecordSeqs(n) ==
    IF n = 0 THEN {<<>>}
    ELSE { <<r>> \o rs : r \in RecordTexts, rs \in RecordSeqs(n - 1) }
Responses == UNION { RecordSeqs(n) : n \in 1..MaxRecords }

\* What the DNS can be during a call that makes an NS lookup only, and during
\* an ownership check; recs is empty where no TXT lookup answers.
NsWorlds == { [ns |-> o, txt |-> "NoAnswer", recs |-> <<>>] : o \in Outcomes }
OwnWorlds ==
    { [ns |-> "answer", txt |-> f, recs |-> <<>>] : f \in Failures }
    \cup { [ns |-> "answer", txt |-> "answer", recs |-> r] : r \in Responses }
    \cup { [ns |-> f, txt |-> "answer", recs |-> <<Quoted(<<107>>)>>] : f \in Failures }
    \cup { [ns |-> f, txt |-> f, recs |-> <<>>] : f \in Failures }

Lengths == {PyInt(-1), PyInt(0), PyInt(1), PyInt(DefaultCodeLength), PyInt(TxtMax - 5),
            PyInt(TxtMax - 1), PyInt(TxtMax), PyInt(TxtMax + 1), PyStr(<<>>), None}
Prefixes == {None, PyStr(<<>>), PyStr(<<112>>), PyStr(Rep(112, 5)),
             PyStr(Rep(112, 11)), PyBytes(<<112>>)}
\* "k", "j7"
Draws == {<<107>>, <<106, 55>>}

(***************************************************************************)
(* The validator after __init__, and the calls made on it.                 *)
(***************************************************************************)
Init ==
    /\ ascii_only \in BOOLEAN
    /\ domain_max_length \in {DefaultMaxLength, CustomMax}
    /\ pc = "idle"
    /\ op = ""
    /\ domain = None
    /\ txt_code = <<>>
    /\ txt_host = None
    /\ length = None
    /\ prefix = None
    /\ response = <<>>
    /\ events = <<>>
    /\ result = NoResult
    /\ given = None

\* A call ends: r.res is what it returns or raises, r.ev what it did.
Ends(r) == result' = r.res /\ events' = r.ev

Call_validate_domain_re ==
    /\ pc = "idle"
    /\ \E d \in ReInputs :
        /\ domain' = d
        /\ result' = validate_domain_re(ascii_only, d)
    /\ op' = "validate_domain_re"
    /\ pc' = "done"
    /\ UNCHANGED <<given, ascii_only, domain_max_length, txt_code, txt_host, length,
                   prefix, response, events>>

Call_validate_domain_length ==
    /\ pc = "idle"
    /\ \E d \in DomainSample :
        /\ domain' = d
        /\ result' = validate_domain_length(domain_max_length, d)
    /\ op' = "validate_domain_length"
    /\ pc' = "done"
    /\ UNCHANGED <<given, ascii_only, domain_max_length, txt_code, txt_host, length,
                   prefix, response, events>>

Call_validate_domain_dns ==
    /\ pc = "idle"
    /\ \E d \in { x \in DomainSample : x.t = "str" }, dns \in NsWorlds :
        LET r == validate_domain_dns(d, dns)
        IN  /\ domain' = d
            /\ result' = r.res
            /\ events' = r.ev
    /\ op' = "validate_domain_dns"
    /\ pc' = "done"
    /\ UNCHANGED <<given, ascii_only, domain_max_length, txt_code, txt_host, length,
                   prefix, response>>

Call_is_domain_valid ==
    /\ pc = "idle"
    /\ \E d \in DomainSample, dns \in NsWorlds :
        LET r == is_domain_valid(ascii_only, domain_max_length, d, dns)
        IN  /\ domain' = d
            /\ result' = r.res
            /\ events' = r.ev
    /\ op' = "is_domain_valid"
    /\ pc' = "done"
    /\ UNCHANGED <<given, ascii_only, domain_max_length, txt_code, txt_host, length,
                   prefix, response>>

Call_domain_ownership_confirmed ==
    /\ pc = "idle"
    /\ \E d \in OwnDomains, code \in TxtCodes, host \in TxtHosts, dns \in OwnWorlds :
        LET r == domain_ownership_confirmed(ascii_only, domain_max_length, d, code,
                                            host, dns)
        IN  /\ domain' = d
            /\ txt_code' = code
            /\ txt_host' = host
            /\ response' = dns.recs
            /\ result' = r.res
            /\ events' = r.ev
    /\ op' = "domain_ownership_confirmed"
    /\ pc' = "done"
    /\ UNCHANGED <<given, ascii_only, domain_max_length, length, prefix>>

Call_unicode_to_punycode ==
    /\ pc = "idle"
    /\ \E d \in ConversionInputs :
        /\ domain' = d
        /\ Ends(unicode_to_punycode(ascii_only, d))
    /\ op' = "unicode_to_punycode"
    /\ pc' = "done"
    /\ UNCHANGED <<given, ascii_only, domain_max_length, txt_code, txt_host, length,
                   prefix, response>>

Call_punycode_to_unicode ==
    /\ pc = "idle"
    /\ \E d \in ConversionInputs :
        /\ domain' = d
        /\ Ends(punycode_to_unicode(ascii_only, d))
    /\ op' = "punycode_to_unicode"
    /\ pc' = "done"
    /\ UNCHANGED <<given, ascii_only, domain_max_length, txt_code, txt_host, length,
                   prefix, response>>

\* The caller hands what unicode_to_punycode returned to punycode_to_unicode.
Call_punycode_to_unicode_on_result ==
    /\ pc = "done"
    /\ op = "unicode_to_punycode"
    /\ result.kind = "return"
    /\ given' = domain
    /\ domain' = PyStr(result.text)
    /\ Ends(punycode_to_unicode(ascii_only, PyStr(result.text)))
    /\ op' = "punycode_to_unicode"
    /\ pc' = "done"
    /\ UNCHANGED <<ascii_only, domain_max_length, txt_code, txt_host, length,
                   prefix, response>>

Call_generate_txt_code ==
    /\ pc = "idle"
    /\ \E len \in Lengths, pre \in Prefixes, draws \in Draws :
        /\ length' = len
        /\ prefix' = pre
        /\ result' = generate_txt_code(len, pre, draws)
    /\ op' = "generate_txt_code"
    /\ pc' = "done"
    /\ UNCHANGED <<given, ascii_only, domain_max_length, domain, txt_code, txt_host,
                   response, events>>

\* The caller has taken the result; the validator keeps nothing of a call.
Forget ==
    /\ pc = "done"
    /\ pc' = "idle"
    /\ op' = ""
    /\ domain' = None
    /\ txt_code' = <<>>
    /\ txt_host' = None
    /\ length' = None
    /\ prefix' = None
    /\ response' = <<>>
    /\ events' = <<>>
    /\ result' = NoResult
    /\ given' = None
    /\ UNCHANGED <<ascii_only, domain_max_length>>

Next ==
    \/ Call_validate_domain_re
    \/ Call_validate_domain_length
    \/ Call_validate_domain_dns
    \/ Call_is_domain_valid
    \/ Call_domain_ownership_confirmed
    \/ Call_unicode_to_punycode
    \/ Call_punycode_to_unicode
    \/ Call_punycode_to_unicode_on_result
    \/ Call_generate_txt_code
    \/ Forget

Spec == Init /\ [][Next]_vars

(***************************************************************************)
(* What the claims speak of.                                               *)
(***************************************************************************)
Own == pc = "done" /\ op = "domain_ownership_confirmed"
IsStr(d) == d.t = "str" /\ d.s # <<>>
FormatOK(d) == validate_domain_re(ascii_only, d).kind = "return"
LengthOK(d) == validate_domain_length(domain_max_length, d).kind = "return"

\* The lookups of the call, and how the NS and the TXT lookup ended ("" if
\* there was none).
Lookups == SelectSeq(events, LAMBDA e : e.ev = "resolve")
Asked(rtype) == \E i \in 1..Len(events) : events[i].ev = "resolve" /\ events[i].what = rtype
Ended(rtype) ==
    IF Asked(rtype)
    THEN (CHOOSE e \in {events[i] : i \in 1..Len(events)} :
              e.ev = "resolve" /\ e.what = rtype).out
    ELSE ""
Checks == SelectSeq(events, LAMBDA e : e.ev = "check")

\* is_domain_valid(domain) is True: the format and the length are right and
\* the NS lookup answered.
DomainValid == FormatOK(domain) /\ LengthOK(domain) /\ Ended("NS") = "answer"

(***************************************************************************)
(* C1: in a call of domain_ownership_confirmed a domain that fails the     *)
(* format or the length check is never handed to the resolver (no NS and   *)
(* no TXT lookup), every name handed to it is well-formed, and the TXT     *)
(* lookup comes only after is_domain_valid has returned True.              *)
(***************************************************************************)
C1_FormatGate ==
    Own =>
        /\ (~FormatOK(domain) \/ ~LengthOK(domain)) => Lookups = <<>>
        /\ \A i \in 1..Len(events) :
               (events[i].ev = "resolve" /\ events[i].what = "NS") =>
                   /\ events[i].name = domain
                   /\ FormatOK(domain) /\ LengthOK(domain)
        /\ \A i \in 1..Len(events) :
               (events[i].ev = "resolve" /\ events[i].what = "TXT") =>
                   \E j \in 1..(i - 1) : events[j] = Returned("is_domain_valid", "True")

\* A well-formed domain over the maximum length, while the DNS would answer.
C1_Witness ==
    /\ Own
    /\ FormatOK(domain) /\ ~LengthOK(domain)
    /\ response # <<>>
    /\ result.kind = "raise"

(***************************************************************************)
(* C2: domain_ownership_confirmed fails closed: when the domain is not     *)
(* valid or the TXT lookup does not answer, the call ends with an error; it*)
(* returns False only when the TXT lookup answered and no record matches;  *)
(* it returns True in none of the failure cases.                           *)
(***************************************************************************)
C2_FailClosed ==
    Own =>
        /\ (~DomainValid \/ Ended("TXT") # "answer") => result.kind = "raise"
        /\ result = Return("False") =>
               /\ DomainValid
               /\ Ended("TXT") = "answer"
               /\ \A i \in 1..Len(response) : Strip(response[i]) # txt_code
        /\ result.kind = "return" => result.val \in {"True", "False"}

\* The TXT lookup of a valid domain times out.
C2_Witness ==
    /\ Own
    /\ DomainValid
    /\ Ended("TXT") = "Timeout"
    /\ result.kind = "raise"

(***************************************************************************)
(* C3: for a valid domain whose TXT lookup answers, the call returns True  *)
(* exactly when some record, without its surrounding double quotes, equals *)
(* txt_code; the name looked up is txt_host "." domain when txt_host is    *)
(* non-empty and domain when it is empty or None.                          *)
(***************************************************************************)
\* r is c between double quotes, and c itself has none at either end.
QuotedForm(r, c) ==
    /\ c = <<>> \/ (c[1] # Quote /\ c[Len(c)] # Quote)
    /\ \E a \in 0..Len(r), b \in 0..Len(r) : r = Rep(Quote, a) \o c \o Rep(Quote, b)

C3_ExactMatch ==
    (Own /\ DomainValid /\ Ended("TXT") = "answer") =>
        /\ result.kind = "return"
        /\ result.val = "True" <=>
               \E i \in 1..Len(response) : QuotedForm(response[i], txt_code)
        /\ \A i \in 1..Len(events) :
               (events[i].ev = "resolve" /\ events[i].what = "TXT") =>
                   events[i].name =
                       IF txt_host.t = "str" /\ txt_host.s # <<>>
                       THEN PyStr(txt_host.s \o <<Dot>> \o domain.s)
                       ELSE domain

\* Under a host, the only record holds the code twice over: no match.
C3_Witness ==
    /\ Own
    /\ DomainValid
    /\ txt_host = PyStr(<<104>>)
    /\ txt_code = <<107>>
    /\ response = <<Quoted(<<107, 107>>)>>
    /\ result = Return("False")

(***************************************************************************)
(* C4: is_domain_valid runs the format check, then the length check, then  *)
(* the NS lookup, stops at the first that fails, and returns True exactly  *)
(* when all three pass.                                                    *)
(***************************************************************************)
C4_OrderedChecks ==
    (pc = "done" /\ op = "is_domain_valid") =>
        LET order == <<"re", "length", "dns">>
            n == Len(Checks)
        IN  /\ n \in 1..3
            /\ \A i \in 1..n : Checks[i].what = order[i]
            /\ \A i \in 1..(n - 1) : Checks[i].out = "pass"
            /\ n < 3 => Checks[n].out = "fail"
            /\ Checks[1].out = "pass" <=> FormatOK(domain)
            /\ n >= 2 => (Checks[2].out = "pass" <=> LengthOK(domain))
            /\ n >= 3 => (Checks[3].out = "pass" <=> Ended("NS") = "answer")
            /\ Asked("NS") <=> n = 3
            /\ ~Asked("TXT")
            /\ result.kind = "return"
            /\ result.val = "True" <=> (n = 3 /\ Checks[3].out = "pass")
            /\ result.val = "True" <=> DomainValid

\* The format is right, the length is not: the NS lookup is not made.
C4_Witness ==
    /\ pc = "done" /\ op = "is_domain_valid"
    /\ FormatOK(domain) /\ ~LengthOK(domain)
    /\ Lookups = <<>>
    /\ result = Return("False")

(***************************************************************************)
(* C5 as stated: for an empty or non-string domain, validate_domain_re,    *)
(* validate_domain_length and is_domain_valid all fail with an             *)
(* invalid-input error and none returns a boolean.                         *)
(***************************************************************************)
Malformed(d) == d.t # "str" \/ d.s = <<>>
InvalidInputError(r) ==
    /\ r.kind = "raise"
    /\ r.exc = "ValueError"
    /\ r.msg \in {"Domain cannot be empty.", "Domain must be a string."}

SplitDots(s) == SplitOn(s, {Dot})

Tagged(l) == Len(l) >= 4 /\ l[3] = Hyphen /\ l[4] = Hyphen
AcePrefixed(l) ==
    Len(l) >= 4 /\ l[1] \in {120, 88} /\ l[2] \in {110, 78}
                /\ l[3] = Hyphen /\ l[4] = Hyphen

ClaimedLabel(l) ==
    /\ Len(l) \in 1..LabelMax
    /\ \A i \in 1..Len(l) : l[i] \in AsciiWord \cup {Hyphen}
    /\ l[1] # Hyphen /\ l[Len(l)] # Hyphen
    /\ Tagged(l) => AcePrefixed(l)

ClaimedGrammar(s) ==
    LET labels == SplitDots(s)
    IN  \A i \in 1..Len(labels) : ClaimedLabel(labels[i])

C6_Original ==
    (pc = "done" /\ op = "validate_domain_re" /\ ascii_only /\ IsStr(domain)) =>
        /\ result.kind = "return" <=> ClaimedGrammar(domain.s)
        /\ domain.s \in {Ex_a_com, Ex_xn, Ex_python_co_uk} => result.kind = "return"
        /\ domain.s \in {Ex_dotdot, Ex_trailing_hyphen, Ex_ipv4, Ex_ipv6, Ex_tagged} =>
               result.kind = "raise"

(***************************************************************************)
(* What the pattern does accept: in ASCII mode validate_domain_re accepts  *)
(* a non-empty string exactly when, one trailing newline set aside, it is  *)
(* empty or it                                                             *)
(* is two or more dot-separated labels where the first and the last are    *)
(* pieces and every label between them is two pieces put together; a piece *)
(* is 1 to 63 characters, each a letter, digit, underscore, hyphen or a    *)
(* character of U+0900..U+097F, that neither starts nor ends with a        *)
(* hyphen.  Hyphens in third and fourth place are not looked at.  So       *)
(* "a.com", "xn--7ca6byfyc.com", "python.co.uk" and "ab--x.com" are        *)
(* accepted; "python..org", "python-.org", "255.0.0.0", "fe80::1", "com"   *)
(* and "a.b.c" are rejected.                                               *)
(***************************************************************************)
Piece(x) ==
    /\ Len(x) \in 1..LabelMax
    /\ \A i \in 1..Len(x) : x[i] \in AsciiWord \cup {Hyphen} \cup Devanagari
    /\ x[1] # Hyphen /\ x[Len(x)] # Hyphen

TwoPieces(x) ==
    \E c \in 1..(Len(x) - 1) : Piece(SubSeq(x, 1, c)) /\ Piece(SubSeq(x, c + 1, Len(x)))

PairedShape(s) ==
    LET core == IF s[Len(s)] = Newline THEN SubSeq(s, 1, Len(s) - 1) ELSE s
        labels == SplitDots(core)
        n == Len(labels)
    IN  \/ core = <<>>
        \/ /\ n >= 2
           /\ Piece(labels[1])
           /\ Piece(labels[n])
           /\ \A i \in 2..(n - 1) : TwoPieces(labels[i])

PatternAsItStands ==
    (pc = "done" /\ op = "validate_domain_re" /\ ascii_only /\ IsStr(domain)) =>
        /\ result.kind = "return" <=> PairedShape(domain.s)
        /\ domain.s \in {Ex_a_com, Ex_xn, Ex_python_co_uk, Ex_tagged, Ex_upper} =>
               result.kind = "return"
        /\ domain.s \in {Ex_dotdot, Ex_trailing_hyphen, Ex_ipv4, Ex_ipv6, Ex_single,
                         Ex_a_b_c} => result.kind = "raise"

\* "a.b.c", three labels of one letter, is rejected in ASCII mode.
C6_FailingInput ==
    /\ pc = "done" /\ op = "validate_domain_re" /\ ascii_only
    /\ domain = PyStr(Ex_a_b_c)
    /\ ClaimedGrammar(domain.s)
    /\ result = Raise("ValueError", "Invalid domain name")

(***************************************************************************)
(* C7 as stated: the DNS check (validate_domain_dns, and is_domain_valid   *)
(* through it) gives its negative result only when the NS lookup reports   *)
(* no such domain or no answer; any other failure of the resolver reaches  *)
(* the caller as that failure.                                             *)
(***************************************************************************)
DnsCheck == pc = "done" /\ op \in {"validate_domain_dns", "is_domain_valid"} /\ Asked("NS")
Negative ==
    IF op = "validate_domain_dns" THEN CaughtValueError(result)
    ELSE result = Return("False")

C8_Claim ==
    (pc = "done" /\ op = "generate_txt_code") =>
        /\ (length.t # "int" \/ length.n <= 0 \/ length.n > TxtMax) =>
               result.kind = "raise"
        /\ (length.t = "int" /\ IsStr(prefix) /\ length.n + Len(prefix.s) + 1 > TxtMax) =>
               result.kind = "raise"
        /\ result.kind = "return" => Len(result.text) <= TxtMax
        /\ (result.kind = "return" /\ Falsy(prefix)) => Len(result.text) = length.n

\* length 254 with the prefix "p": 256 characters are returned.
C8_FailingInput ==
    /\ pc = "done" /\ op = "generate_txt_code"
    /\ length = PyInt(TxtMax - 1)
    /\ prefix = PyStr(<<112>>)
    /\ result.kind = "return"
    /\ Len(result.text) = TxtMax + 1

(***************************************************************************)
(* C9: on a validator constructed ASCII-only, unicode_to_punycode and      *)
(* punycode_to_unicode raise NotImplementedError for every input, empty,   *)
(* non-string and ill-formed ones included: the mode check comes before    *)
(* the format check, so the call makes no format check, never runs the     *)
(* codec, and raises no ValueError.                                        *)
(***************************************************************************)
Conversion == pc = "done" /\ op \in {"unicode_to_punycode", "punycode_to_unicode"}

C9_AsciiOnlyUnsupported ==
    (Conversion /\ ascii_only) =>
        /\ result.kind = "raise"
        /\ result.exc = "NotImplementedError"
        /\ events = <<>>

\* Both conversions refuse None, and punycode_to_unicode refuses a domain it
\* could decode, on an ASCII-only validator.
C9_Witness ==
    /\ Conversion /\ ascii_only
    /\ op = "punycode_to_unicode"
    /\ domain = PyStr(Ex_puny_l1b)
    /\ result.exc = "NotImplementedError"

(***************************************************************************)
(* C10: validate_domain_length accepts a non-empty string exactly when its *)
(* length in characters is at most domain_max_length, which is 255 unless  *)
(* configured otherwise: a domain of exactly that length is accepted, one  *)
(* character more is rejected.                                             *)
(***************************************************************************)
C10_InclusiveBound ==
    (pc = "done" /\ op = "validate_domain_length" /\ IsStr(domain)) =>
        /\ Len(domain.s) <= domain_max_length => result = Return("None")
        /\ Len(domain.s) > domain_max_length => CaughtValueError(result)

\* A domain of exactly 255 characters is accepted under the default.
C10_Witness ==
    /\ pc = "done" /\ op = "validate_domain_length"
    /\ domain_max_length = DefaultMaxLength
    /\ Len(domain.s) = DefaultMaxLength
    /\ result = Return("None")

(***************************************************************************)
(* C11 as stated: on a Unicode-mode validator, for every domain d that the *)
(* format check accepts, unicode_to_punycode(d) succeeds, and              *)
(* punycode_to_unicode of its result passes the format check and returns   *)
(* d.                                                                      *)
(***************************************************************************)
Encoding ==
    /\ pc = "done" /\ op = "unicode_to_punycode" /\ ~ascii_only
    /\ FormatOK(domain)
Trip == pc = "done" /\ op = "punycode_to_unicode" /\ given # None

ConversionError == Raise("ValueError", "Error converting to Punycode")

HasAce(s) ==
    \E i \in 1..Len(SplitDots(s)) : StartsWith(SplitDots(s)[i], AcePrefix)

NewlineInLabel(s) ==
    /\ s[Len(s)] = Newline
    /\ ~IsAscii(SplitDots(s)[Len(SplitDots(s))])

RECURSIVE MappedLabels(_)
MappedLabels(labels) ==
    IF labels = <<>> THEN <<>>
    ELSE <<IF IsAscii(Head(labels)) THEN Head(labels) ELSE NameprepMap(Head(labels))>>
         \o MappedLabels(Tail(labels))

NormalForm(s) == Join(MappedLabels(SplitDots(s)))

====
